---- MODULE Spec2Model ----
(***************************************************************************)
(* Model of data/opcodes_fetcher.py: the script downloads a JSON document  *)
(* describing the Game Boy opcodes, turns every descriptor into one CSV    *)
(* row keyed by the integer value of its identifier, and writes one CSV    *)
(* file per opcode group with the rows sorted by that integer.             *)
(*                                                                         *)
(* Text (identifiers, mnemonics, rows, file contents) is modelled as a     *)
(* sequence of one-character strings, so that formatting, parsing and      *)
(* concatenation are computed and not assumed.                             *)
(***************************************************************************)
EXTENDS Integers, Sequences, FiniteSets, TLC

\* Largest number of well-formed descriptors in one group of the document.
MaxOps == 3
\* Longest "cycles" sequence of a descriptor.
MaxCycles == 3

VARIABLES
    remote,         \* what the URL serves: [valid, doc]
    operations,     \* the parsed document (line 15)
    operation_set,  \* per group, an insertion-ordered dict int -> row (17-19, 47)
    pc,             \* position of the script
    gi,             \* index of op_type in the tuple of the current for loop
    todo,           \* identifiers the loop of line 22 has not visited yet
    keys,           \* sorted keys the loop of line 52 has not visited yet
    files,          \* file name -> content
    fstate,         \* file name -> "absent" | "open" | "complete" | "truncated"
    err             \* the uncaught exception that ended the run, or "none"

vars == <<remote, operations, operation_set, pc, gi, todo, keys, files, fstate, err>>

-----------------------------------------------------------------------------
(* Literals of the script *)

\* ("unprefixed", "cbprefixed"), lines 21 and 49
OpTypes == <<"unprefixed", "cbprefixed">>

\* f'{op_type}.csv', line 50
FileName(op_type) == op_type \o ".csv"

FileNames == {FileName(OpTypes[i]) : i \in DOMAIN OpTypes}

\* the string written at line 51
Header == <<"c","o","d","e",",","m","n","e","m","o","n","i","c",",",
            "o","p","e","r","a","n","d","1",",","o","p","e","r","a","n","d","2",",",
            "b","y","t","e","s",",","f","l","a","g","_","z",",","f","l","a","g","_","h",",",
            "f","l","a","g","_","n",",","f","l","a","g","_","c",",",
            "c","y","c","l","e","s","_","o","k",",","c","y","c","l","e","s","_","n","o">>

-----------------------------------------------------------------------------
(* Conversions *)

DecDigits == <<"0","1","2","3","4","5","6","7","8","9">>
LowerHex  == DecDigits \o <<"a","b","c","d","e","f">>
UpperHex  == DecDigits \o <<"A","B","C","D","E","F">>

IsHexDigit(c) == \E v \in 1..16 : LowerHex[v] = c \/ UpperHex[v] = c

HexDigitVal(c) == (CHOOSE v \in 1..16 : LowerHex[v] = c \/ UpperHex[v] = c) - 1

\* int(s, base=16) accepts an optional 0x / 0X prefix before the digits
StripHexPrefix(s) ==
    IF Len(s) >= 2 /\ s[1] = "0" /\ s[2] \in {"x", "X"}
    THEN SubSeq(s, 3, Len(s))
    ELSE s

\* int(op_id, base=16) returns (otherwise it raises ValueError)
IsBase16(s) ==
    LET d == StripHexPrefix(s)
    IN  d # <<>> /\ \A i \in 1..Len(d) : IsHexDigit(d[i])

RECURSIVE HexDigitsVal(_)
HexDigitsVal(d) ==
    IF d = <<>> THEN 0
    ELSE 16 * HexDigitsVal(SubSeq(d, 1, Len(d) - 1)) + HexDigitVal(d[Len(d)])

\* int(op_id, base=16), line 47
IntBase16(s) == HexDigitsVal(StripHexPrefix(s))

\* how an f-string renders a non-negative int
RECURSIVE Str(_)
Str(n) ==
    IF n < 10 THEN <<DecDigits[n + 1]>>
    ELSE Str(n \div 10) \o <<DecDigits[(n % 10) + 1]>>

-----------------------------------------------------------------------------
(* The body of the loop of line 22, as functions of op_id and op *)

\* Flag with the '-' passed through
FlagVerbatim(op, i) == <<op.flags_ZHNC[i]>>

\* lines 26-37: one flag position (i counted from 1)
Flag(op, i) ==
    LET c == op.flags_ZHNC[i]
    IN  IF c = "-" THEN <<>> ELSE <<c>>

\* Get without the default: op.get(key) renders as None
GetNone(op, key) == IF key \in DOMAIN op THEN op[key] ELSE <<"N","o","n","e">>

\* op.get(key, ''), lines 39-40
Get(op, key) == IF key \in DOMAIN op THEN op[key] ELSE <<>>

\* line 41
CyclesOk(op) == Str(op.cycles[1])

\* CyclesNo with the length test off by one
CyclesNoLate(op) == IF Len(op.cycles) > 2 THEN Str(op.cycles[2]) ELSE <<>>

\* lines 42-45
CyclesNo(op) == IF Len(op.cycles) > 1 THEN Str(op.cycles[2]) ELSE <<>>

\* the f-string of line 47
FormatRow(op_code, mnemonic, operand1, operand2, bytes, flag_z, flag_h, flag_n, flag_c, cycles_ok, cycles_no) ==
    op_code \o <<",">> \o mnemonic \o <<",">> \o operand1 \o <<",">> \o operand2
    \o <<",">> \o Str(bytes) \o <<",">> \o flag_z \o <<",">> \o flag_h
    \o <<",">> \o flag_n \o <<",">> \o flag_c \o <<",">> \o cycles_ok
    \o <<",">> \o cycles_no

\* Row with the integer key as its first column
RowOfKey(op_id, op) ==
    FormatRow(Str(IntBase16(op_id)), op.mnemonic, Get(op, "operand1"),
              Get(op, "operand2"), op.bytes, Flag(op, 1), Flag(op, 2), Flag(op, 3),
              Flag(op, 4), CyclesOk(op), CyclesNo(op))

\* lines 23-47: the row of one descriptor
Row(op_id, op) ==
    FormatRow(op_id, op.mnemonic, Get(op, "operand1"), Get(op, "operand2"),
              op.bytes, Flag(op, 1), Flag(op, 2), Flag(op, 3), Flag(op, 4),
              CyclesOk(op), CyclesNo(op))

\* lines 24-47: the first exception the body raises, in evaluation order
RowError(op_id, op) ==
    IF "bytes" \notin DOMAIN op THEN "KeyError"
    ELSE IF "mnemonic" \notin DOMAIN op THEN "KeyError"
    ELSE IF "flags_ZHNC" \notin DOMAIN op THEN "KeyError"
    ELSE IF Len(op.flags_ZHNC) < 4 THEN "IndexError"
    ELSE IF "cycles" \notin DOMAIN op THEN "KeyError"
    ELSE IF op.cycles = <<>> THEN "IndexError"
    ELSE IF ~IsBase16(op_id) THEN "ValueError"
    ELSE "none"

\* d[k] = v on an insertion-ordered dict: an existing key keeps its place
DictSet(d, k, v) ==
    IF \E i \in DOMAIN d : d[i].key = k
    THEN [i \in DOMAIN d |-> IF d[i].key = k THEN [key |-> k, row |-> v] ELSE d[i]]
    ELSE Append(d, [key |-> k, row |-> v])

\* d[k]
DictGet(d, k) == d[CHOOSE i \in DOMAIN d : d[i].key = k].row

RECURSIVE SortSet(_)
SortSet(S) ==
    IF S = {} THEN <<>>
    ELSE LET m == CHOOSE x \in S : \A y \in S : x <= y
         IN  <<m>> \o SortSet(S \ {m})

\* Sorted left out: the keys in insertion order
Unsorted(d) == [i \in DOMAIN d |-> d[i].key]

\* sorted(operation_set[op_type].keys()), line 52
Sorted(d) == SortSet({d[i].key : i \in DOMAIN d})

-----------------------------------------------------------------------------
(* The documents the URL may serve *)

T_LD  == <<"L","D">>
T_JR  == <<"J","R">>
T_NOP == <<"N","O","P">>
T_A   == <<"A">>
T_B   == <<"B">>
T_BC  == <<"(","B","C",")">>
T_NZ  == <<"N","Z">>
T_r8  == <<"r","8">>

Id78 == <<"0","x","7","8">>
Id20 == <<"0","x","2","0">>
Id0A == <<"0","x","0","A">>
Id0a == <<"0","x","0","a">>
Id3E == <<"0","x","3","E">>
IdBad == <<"0","x","G","1">>

D_LD_A_B  == [mnemonic |-> T_LD, bytes |-> 1, operand1 |-> T_A, operand2 |-> T_B,
              flags_ZHNC |-> <<"-","-","-","-">>, cycles |-> <<4>>]
D_JR      == [mnemonic |-> T_JR, bytes |-> 2, operand1 |-> T_NZ, operand2 |-> T_r8,
              flags_ZHNC |-> <<"Z","0","0","-">>, cycles |-> <<12, 8>>]
D_LD_A_BC == [mnemonic |-> T_LD, bytes |-> 1, operand1 |-> T_A, operand2 |-> T_BC,
              flags_ZHNC |-> <<"-","-","-","-">>, cycles |-> <<8>>]
D_NOP     == [mnemonic |-> T_NOP, bytes |-> 1,
              flags_ZHNC |-> <<"-","-","-","-">>, cycles |-> <<4>>]

RequiredKeys == {"mnemonic", "bytes", "flags_ZHNC", "cycles"}

Without(op, k) == [f \in (DOMAIN op) \ {k} |-> op[f]]

\* entries <<identifier, descriptor>> the body of the loop accepts
GoodPool == { <<Id78, D_LD_A_B>>, <<Id20, D_JR>>, <<Id0A, D_LD_A_BC>>, <<Id0a, D_NOP>> }

\* entries the body of the loop raises on
BadPool ==
    { <<Id3E, Without(D_LD_A_B, k)>> : k \in RequiredKeys }
    \cup { <<Id3E, [D_LD_A_B EXCEPT !.cycles = <<>>]>>,
           <<Id3E, [D_JR EXCEPT !.flags_ZHNC = <<"Z","0">>]>>,
           <<IdBad, D_NOP>> }

GroupOf(S) == [id \in {e[1] : e \in S} |-> (CHOOSE e \in S : e[1] = id)[2]]

GoodGroups == { GroupOf(S) : S \in {X \in SUBSET GoodPool : Cardinality(X) <= MaxOps} }

BadGroups ==
    { GroupOf(S \cup {b}) : S \in {X \in SUBSET GoodPool : Cardinality(X) < MaxOps},
                             b \in BadPool }

\* documents with several descriptors per group
MultiDocs ==
    [unprefixed : GoodGroups, cbprefixed : GoodGroups]
    \cup [unprefixed : BadGroups, cbprefixed : {GroupOf({e}) : e \in GoodPool}]
    \cup [unprefixed : {GroupOf({e}) : e \in GoodPool}, cbprefixed : BadGroups]

\* documents that lack a top-level key
PartialDocs ==
    { Without(d, k) : d \in [unprefixed : {GroupOf({<<Id78, D_LD_A_B>>})},
                             cbprefixed : {GroupOf({<<Id20, D_JR>>})}],
                      k \in {"unprefixed", "cbprefixed"} }

FlagChars == {"-", "Z", "0"}

CycleSeq(n) == [i \in 1..n |-> 4 * (n + 1 - i)]

OperandPart(o1, o2) ==
    IF o1 /\ o2 THEN [operand1 |-> T_A, operand2 |-> T_B]
    ELSE IF o1 THEN [operand1 |-> T_A]
    ELSE IF o2 THEN [operand2 |-> T_B]
    ELSE <<>>

\* one descriptor, every shape of flags, cycles and operands
RichDescs ==
    { [mnemonic |-> T_LD, bytes |-> 2, flags_ZHNC |-> fl, cycles |-> CycleSeq(n)]
        @@ OperandPart(o1, o2) :
        fl \in [1..4 -> FlagChars], n \in 0..MaxCycles, o1 \in BOOLEAN, o2 \in BOOLEAN }

RichDocs ==
    { [unprefixed |-> GroupOf({<<Id20, d>>}), cbprefixed |-> <<>>] : d \in RichDescs }

Docs == MultiDocs \cup PartialDocs \cup RichDocs

-----------------------------------------------------------------------------
(* The script *)

Init ==
    /\ remote \in [valid : {TRUE}, doc : Docs] \cup {[valid |-> FALSE, doc |-> <<>>]}
    /\ operations = <<>>
    /\ operation_set = <<>>
    /\ pc = "load_ops"
    /\ gi = 1
    /\ todo = {}
    /\ keys = <<>>
    /\ files = [f \in FileNames |-> <<>>]
    /\ fstate = [f \in FileNames |-> "absent"]
    /\ err = "none"

\* an uncaught exception ends the interpreter
Raise(e) ==
    /\ pc' = "failed"
    /\ err' = e

\* lines 11-19: the document is fetched and parsed, the two dicts are created
LoadOps ==
    /\ pc = "load_ops"
    /\ remote.valid
    /\ operations' = remote.doc
    /\ operation_set' = [unprefixed |-> <<>>, cbprefixed |-> <<>>]
    /\ pc' = "for_op_type"
    /\ gi' = 1
    /\ UNCHANGED <<remote, todo, keys, files, fstate, err>>

\* line 12: request.urlopen raises
LoadOpsFetchError ==
    /\ pc = "load_ops"
    /\ Raise("URLError")
    /\ UNCHANGED <<remote, operations, operation_set, gi, todo, keys, files, fstate>>

\* line 13: json.load raises
LoadOpsParseError ==
    /\ pc = "load_ops"
    /\ ~remote.valid
    /\ Raise("JSONDecodeError")
    /\ UNCHANGED <<remote, operations, operation_set, gi, todo, keys, files, fstate>>

\* lines 21-22: the next op_type, operations[op_type].items()
TransformGroup ==
    /\ pc = "for_op_type"
    /\ gi <= Len(OpTypes)
    /\ OpTypes[gi] \in DOMAIN operations
    /\ todo' = DOMAIN operations[OpTypes[gi]]
    /\ pc' = "for_op"
    /\ UNCHANGED <<remote, operations, operation_set, gi, keys, files, fstate, err>>

\* TransformGroupError with a missing group taken as empty
TransformGroupSkipped ==
    /\ pc = "for_op_type"
    /\ gi <= Len(OpTypes)
    /\ OpTypes[gi] \notin DOMAIN operations
    /\ gi' = gi + 1
    /\ UNCHANGED <<remote, operations, operation_set, pc, todo, keys, files, fstate, err>>

\* line 22: operations[op_type] raises
TransformGroupError ==
    /\ pc = "for_op_type"
    /\ gi <= Len(OpTypes)
    /\ OpTypes[gi] \notin DOMAIN operations
    /\ Raise("KeyError")
    /\ UNCHANGED <<remote, operations, operation_set, gi, todo, keys, files, fstate>>

\* line 21: the tuple is exhausted, the loop of line 49 starts
TransformDone ==
    /\ pc = "for_op_type"
    /\ gi > Len(OpTypes)
    /\ pc' = "for_file"
    /\ gi' = 1
    /\ UNCHANGED <<remote, operations, operation_set, todo, keys, files, fstate, err>>

\* lines 22-47: one descriptor becomes one row
TransformOp ==
    /\ pc = "for_op"
    /\ \E op_id \in todo :
         LET op_type == OpTypes[gi]
             op == operations[op_type][op_id]
         IN  /\ RowError(op_id, op) = "none"
             /\ operation_set' =
                   [operation_set EXCEPT
                      ![op_type] = DictSet(@, IntBase16(op_id), Row(op_id, op))]
             /\ todo' = todo \ {op_id}
    /\ UNCHANGED <<remote, operations, pc, gi, keys, files, fstate, err>>

\* TransformOpError with the exception swallowed: the descriptor is skipped
TransformOpSkipped ==
    /\ pc = "for_op"
    /\ \E op_id \in todo :
         LET op == operations[OpTypes[gi]][op_id]
         IN  /\ RowError(op_id, op) # "none"
             /\ todo' = todo \ {op_id}
    /\ UNCHANGED <<remote, operations, operation_set, pc, gi, keys, files, fstate, err>>

\* lines 22-47: the body raises
TransformOpError ==
    /\ pc = "for_op"
    /\ \E op_id \in todo :
         LET op == operations[OpTypes[gi]][op_id]
         IN  /\ RowError(op_id, op) # "none"
             /\ Raise(RowError(op_id, op))
    /\ UNCHANGED <<remote, operations, operation_set, gi, todo, keys, files, fstate>>

\* line 22: the items are exhausted
TransformGroupEnd ==
    /\ pc = "for_op"
    /\ todo = {}
    /\ gi' = gi + 1
    /\ pc' = "for_op_type"
    /\ UNCHANGED <<remote, operations, operation_set, todo, keys, files, fstate, err>>

\* lines 49-50: the next file is created or truncated
ExportOpen ==
    /\ pc = "for_file"
    /\ gi <= Len(OpTypes)
    /\ files' = [files EXCEPT ![FileName(OpTypes[gi])] = <<>>]
    /\ fstate' = [fstate EXCEPT ![FileName(OpTypes[gi])] = "open"]
    /\ pc' = "write_header"
    /\ UNCHANGED <<remote, operations, operation_set, gi, todo, keys, err>>

\* line 50: open raises
ExportOpenError ==
    /\ pc = "for_file"
    /\ gi <= Len(OpTypes)
    /\ Raise("OSError")
    /\ UNCHANGED <<remote, operations, operation_set, gi, todo, keys, files, fstate>>

\* lines 51-52: the header is written, the keys are sorted
ExportHeader ==
    /\ pc = "write_header"
    /\ files' = [files EXCEPT ![FileName(OpTypes[gi])] = @ \o Header]
    /\ keys' = Sorted(operation_set[OpTypes[gi]])
    /\ pc' = "for_key"
    /\ UNCHANGED <<remote, operations, operation_set, gi, todo, fstate, err>>

\* line 53
ExportNewline ==
    /\ pc = "for_key"
    /\ keys # <<>>
    /\ files' = [files EXCEPT ![FileName(OpTypes[gi])] = @ \o <<"\n">>]
    /\ pc' = "write_row"
    /\ UNCHANGED <<remote, operations, operation_set, gi, todo, keys, fstate, err>>

\* line 54
ExportRow ==
    /\ pc = "write_row"
    /\ files' = [files EXCEPT ![FileName(OpTypes[gi])] =
                    @ \o DictGet(operation_set[OpTypes[gi]], Head(keys))]
    /\ keys' = Tail(keys)
    /\ pc' = "for_key"
    /\ UNCHANGED <<remote, operations, operation_set, gi, todo, fstate, err>>

\* ExportClose with a line separator ending the file
ExportCloseNewline ==
    /\ pc = "for_key"
    /\ keys = <<>>
    /\ files' = [files EXCEPT ![FileName(OpTypes[gi])] = @ \o <<"\n">>]
    /\ fstate' = [fstate EXCEPT ![FileName(OpTypes[gi])] = "complete"]
    /\ gi' = gi + 1
    /\ pc' = "for_file"
    /\ UNCHANGED <<remote, operations, operation_set, todo, keys, err>>

\* lines 52 and 50: the keys are exhausted, the with block closes the file
ExportClose ==
    /\ pc = "for_key"
    /\ keys = <<>>
    /\ fstate' = [fstate EXCEPT ![FileName(OpTypes[gi])] = "complete"]
    /\ gi' = gi + 1
    /\ pc' = "for_file"
    /\ UNCHANGED <<remote, operations, operation_set, todo, keys, files, err>>

\* ExportWriteError caught per file: the loop goes on with the next file
ExportWriteErrorContinue ==
    /\ pc \in {"write_header", "for_key", "write_row"}
    /\ fstate' = [fstate EXCEPT ![FileName(OpTypes[gi])] = "truncated"]
    /\ err' = "OSError"
    /\ gi' = gi + 1
    /\ pc' = "for_file"
    /\ UNCHANGED <<remote, operations, operation_set, todo, keys, files>>

\* lines 51-54: a write, or the closing flush, raises; the with block closes
\* the file with what was written so far
ExportWriteError ==
    /\ pc \in {"write_header", "for_key", "write_row"}
    /\ fstate' = [fstate EXCEPT ![FileName(OpTypes[gi])] = "truncated"]
    /\ Raise("OSError")
    /\ UNCHANGED <<remote, operations, operation_set, gi, todo, keys, files>>

\* line 49: the tuple is exhausted, the script ends
ExportDone ==
    /\ pc = "for_file"
    /\ gi > Len(OpTypes)
    /\ pc' = "done"
    /\ UNCHANGED <<remote, operations, operation_set, gi, todo, keys, files, fstate, err>>

Next ==
    \/ LoadOps
    \/ LoadOpsFetchError
    \/ LoadOpsParseError
    \/ TransformGroup
    \/ TransformGroupError
    \/ TransformDone
    \/ TransformOp
    \/ TransformOpError
    \/ TransformGroupEnd
    \/ ExportOpen
    \/ ExportOpenError
    \/ ExportHeader
    \/ ExportNewline
    \/ ExportRow
    \/ ExportClose
    \/ ExportWriteError
    \/ ExportDone

Spec == Init /\ [][Next]_vars

-----------------------------------------------------------------------------
(* Reading the output back *)

\* the pieces of s between the occurrences of sep
RECURSIVE Split(_, _)
Split(s, sep) ==
    IF \E i \in 1..Len(s) : s[i] = sep
    THEN LET i == CHOOSE i \in 1..Len(s) : s[i] = sep /\ \A j \in 1..(i - 1) : s[j] # sep
         IN  <<SubSeq(s, 1, i - 1)>> \o Split(SubSeq(s, i + 1, Len(s)), sep)
    ELSE <<s>>

Lines(content) == Split(content, "\n")

Fields(line) == Split(line, ",")

IsDec(s) == s # <<>> /\ \A i \in 1..Len(s) : \E v \in 1..10 : DecDigits[v] = s[i]

RECURSIVE DecVal(_)
DecVal(s) ==
    IF s = <<>> THEN 0
    ELSE 10 * DecVal(SubSeq(s, 1, Len(s) - 1))
         + (CHOOSE v \in 1..10 : DecDigits[v] = s[Len(s)]) - 1

\* the data lines of a file
DataLines(name) == Tail(Lines(files[name]))

\* the rows built so far, each with its group
BuiltRows ==
    UNION { { <<g, operation_set[g][i].row>> : i \in DOMAIN operation_set[g] } :
            g \in DOMAIN operation_set }

\* the descriptor a row was built from: the one its first column names
SourceOf(g, row) == operations[g][Fields(row)[1]]

Unprefixed == FileName(OpTypes[1])
Cbprefixed == FileName(OpTypes[2])

-----------------------------------------------------------------------------
(* C1: in every completely written file the data rows are strictly        *)
(* ascending by the base-16 value of their first column, whatever the     *)
(* order in which the descriptors were visited.                           *)
RowsAscending ==
    \A name \in FileNames :
        fstate[name] = "complete" =>
            LET L == DataLines(name)
            IN  \A j \in 1..(Len(L) - 1) :
                    IntBase16(Fields(L[j])[1]) < IntBase16(Fields(L[j + 1])[1])

\* a complete file of three rows whose rows were built in descending order
RowsAscendingWitness ==
    /\ fstate[Unprefixed] = "complete"
    /\ Len(DataLines(Unprefixed)) = 3
    /\ LET d == operation_set[OpTypes[1]]
       IN  Len(d) = 3 /\ d[1].key > d[2].key /\ d[2].key > d[3].key

(* C2: a completely written file has as many data rows as its input group *)
(* has descriptors, also when two identifiers denote the same integer.    *)
RowCountEqualsDescriptorCount ==
    \A i \in DOMAIN OpTypes :
        fstate[FileName(OpTypes[i])] = "complete" =>
            Len(DataLines(FileName(OpTypes[i])))
                = Cardinality(DOMAIN operations[OpTypes[i]])

(* C3: in every row, each of the four flag columns is empty when the flag *)
(* character at its position is '-' and is that character otherwise.      *)
FlagColumns ==
    \A r \in BuiltRows :
        LET f  == Fields(r[2])
            op == SourceOf(r[1], r[2])
        IN  \A p \in 1..4 :
                f[5 + p] = IF op.flags_ZHNC[p] = "-" THEN <<>> ELSE <<op.flags_ZHNC[p]>>

\* a row built from flags that mix '-' and other characters
FlagColumnsWitness ==
    \E r \in BuiltRows :
        /\ SourceOf(r[1], r[2]).flags_ZHNC = <<"-", "Z", "-", "0">>
        /\ SubSeq(Fields(r[2]), 6, 9) = << <<>>, <<"Z">>, <<>>, <<"0">> >>

(* C4: in every row, cycles_ok is the first element of cycles; cycles_no  *)
(* is empty when cycles has one element and is the second element when it *)
(* has two or more.                                                       *)
CycleColumns ==
    \A r \in BuiltRows :
        LET f  == Fields(r[2])
            op == SourceOf(r[1], r[2])
        IN  /\ IsDec(f[10]) /\ DecVal(f[10]) = op.cycles[1]
            /\ Len(op.cycles) = 1 => f[11] = <<>>
            /\ Len(op.cycles) >= 2 => IsDec(f[11]) /\ DecVal(f[11]) = op.cycles[2]

\* one group holds a row of a one-element cycles and a row of a two-element one
CycleColumnsWitness ==
    \E r1, r2 \in BuiltRows :
        /\ r1[1] = r2[1]
        /\ Len(SourceOf(r1[1], r1[2]).cycles) = 1 /\ Fields(r1[2])[11] = <<>>
        /\ Len(SourceOf(r2[1], r2[2]).cycles) = 2 /\ Fields(r2[2])[11] = <<"8">>

(* C5: in every row, the column of an operand key the descriptor lacks is *)
(* empty and the column of a present key is its value; a descriptor that  *)
(* lacks only operand keys never makes the run fail.                      *)
OperandColumns ==
    /\ \A r \in BuiltRows :
         LET f  == Fields(r[2])
             op == SourceOf(r[1], r[2])
         IN  /\ f[3] = IF "operand1" \in DOMAIN op THEN op.operand1 ELSE <<>>
             /\ f[4] = IF "operand2" \in DOMAIN op THEN op.operand2 ELSE <<>>
    /\ (pc = "failed" /\ operation_set # <<>> /\ OpTypes[gi] \in DOMAIN operations)
         => (err = "OSError"
             \/ \E id \in todo :
                  LET op == operations[OpTypes[gi]][id]
                  IN  \/ ~(RequiredKeys \subseteq DOMAIN op)
                      \/ Len(op.flags_ZHNC) < 4
                      \/ op.cycles = <<>>
                      \/ ~IsBase16(id))

\* a row built from a descriptor with operand2 and without operand1
OperandColumnsWitness ==
    \E r \in BuiltRows :
        /\ DOMAIN SourceOf(r[1], r[2]) = RequiredKeys \cup {"operand2"}
        /\ Fields(r[2])[3] = <<>>
        /\ Fields(r[2])[4] = T_B

Malformed(op) == ~(RequiredKeys \subseteq DOMAIN op) \/ op.cycles = <<>>

(* C6: when a group of the parsed document holds a malformed descriptor   *)
(* (a required key missing, or an empty cycles), the run never gets past  *)
(* the transform loop: the descriptor is not skipped, and no output file  *)
(* of either group is ever opened.                                        *)
MalformedAborts ==
    \A i \in DOMAIN OpTypes :
        (pc # "load_ops" /\ OpTypes[i] \in DOMAIN operations) =>
            \A id \in DOMAIN operations[OpTypes[i]] :
                Malformed(operations[OpTypes[i]][id]) =>
                    /\ pc \in {"for_op_type", "for_op", "failed"}
                    /\ \A name \in FileNames :
                          fstate[name] = "absent" /\ files[name] = <<>>
                    /\ gi <= i
                    /\ (gi = i /\ pc = "for_op") => id \in todo

\* the run failed on an empty cycles in cbprefixed after unprefixed was transformed
MalformedAbortsWitness ==
    /\ pc = "failed" /\ err = "IndexError" /\ gi = 2
    /\ Len(operation_set[OpTypes[1]]) >= 1
    /\ \E id \in todo :
         LET op == operations[OpTypes[2]][id]
         IN  "cycles" \in DOMAIN op /\ op.cycles = <<>>
    /\ \A name \in FileNames : fstate[name] = "absent"

Stage(p) ==
    CASE p = "load_ops" -> 1
      [] p \in {"for_op_type", "for_op"} -> 2
      [] p \in {"for_file", "write_header", "for_key", "write_row"} -> 3
      [] p = "done" -> 4
      [] p = "failed" -> 5

StageOrder ==
    /\ Stage(pc) <= Stage(pc')
    /\ pc \in {"done", "failed"} => pc' = pc
    /\ pc = "load_ops" => pc' \in {"for_op_type", "failed"}

LoadFailureAborts ==
    /\ err \in {"URLError", "JSONDecodeError"} => pc = "failed"
    /\ (\/ err \in {"URLError", "JSONDecodeError"}
        \/ ~remote.valid
        \/ \E i \in DOMAIN OpTypes : OpTypes[i] \notin DOMAIN remote.doc)
         => /\ Stage(pc) \in {1, 2, 5}
            /\ \A name \in FileNames : fstate[name] = "absent"

(* C7: the run goes through load, transform, write in that order and      *)
(* never back, and stays where it ended; when the fetch fails, the body   *)
(* is not JSON or a top-level key is missing, the run fails and the write *)
(* stage is never reached.                                                *)
StagesInOrder == [][StageOrder]_vars /\ []LoadFailureAborts

\* cbprefixed is missing: unprefixed was transformed, then the run failed
StagesInOrderWitness ==
    /\ pc = "failed" /\ err = "KeyError"
    /\ OpTypes[2] \notin DOMAIN operations
    /\ Len(operation_set[OpTypes[1]]) >= 1

(* C8: every data line of a completely written file is the 11 columns     *)
(* code, mnemonic, operand1, operand2, bytes, flag_z, flag_h, flag_n,     *)
(* flag_c, cycles_ok, cycles_no joined by commas, where code is an        *)
(* identifier of the input group as it is spelled there and the other     *)
(* columns are those of its descriptor.                                   *)
RowShape ==
    \A i \in DOMAIN OpTypes :
        fstate[FileName(OpTypes[i])] = "complete" =>
            LET L == DataLines(FileName(OpTypes[i]))
            IN  \A j \in DOMAIN L :
                  LET f == Fields(L[j])
                  IN  /\ Len(f) = 11
                      /\ f[1] \in DOMAIN operations[OpTypes[i]]
                      /\ LET op == operations[OpTypes[i]][f[1]]
                         IN  /\ f[2] = op.mnemonic
                             /\ f[3] = IF "operand1" \in DOMAIN op THEN op.operand1 ELSE <<>>
                             /\ f[4] = IF "operand2" \in DOMAIN op THEN op.operand2 ELSE <<>>
                             /\ IsDec(f[5]) /\ DecVal(f[5]) = op.bytes
                             /\ \A p \in 1..4 :
                                  f[5 + p] = IF op.flags_ZHNC[p] = "-" THEN <<>>
                                             ELSE <<op.flags_ZHNC[p]>>
                             /\ IsDec(f[10]) /\ DecVal(f[10]) = op.cycles[1]
                             /\ f[11] = IF Len(op.cycles) > 1 THEN Str(op.cycles[2])
                                        ELSE <<>>

\* unprefixed.csv is complete and holds the line 0x78,LD,A,B,1,,,,,4,
RowShapeWitness ==
    /\ fstate[Unprefixed] = "complete"
    /\ \E j \in DOMAIN DataLines(Unprefixed) :
         DataLines(Unprefixed)[j] =
            <<"0","x","7","8",",","L","D",",","A",",","B",",","1",
              ",",",",",",",",",","4",",">>

(* C9: a completely written file is the header line followed by one line  *)
(* per row of its group, a line separator before each row and none after  *)
(* the last; an empty group gives the header alone.                       *)
FileLayout ==
    \A i \in DOMAIN OpTypes :
        fstate[FileName(OpTypes[i])] = "complete" =>
            LET c == files[FileName(OpTypes[i])]
                d == operation_set[OpTypes[i]]
                L == Lines(c)
            IN  /\ L[1] = Header
                /\ Len(L) = 1 + Len(d)
                /\ {L[j] : j \in 2..Len(L)} = {d[k].row : k \in DOMAIN d}
                /\ c[Len(c)] # "\n"
                /\ d = <<>> => c = Header

\* both files are complete: one with rows, one for an empty group
FileLayoutWitness ==
    /\ fstate[Unprefixed] = "complete"
    /\ fstate[Cbprefixed] = "complete"
    /\ Len(Lines(files[Unprefixed])) = 3
    /\ files[Cbprefixed] = Header

OneFileAtATime ==
    /\ fstate[Cbprefixed] # "absent" => fstate[Unprefixed] = "complete"
    /\ (err = "OSError" /\ fstate[Unprefixed] # "complete")
         => pc = "failed" /\ fstate[Cbprefixed] = "absent" /\ files[Cbprefixed] = <<>>

NoRollback ==
    fstate[Unprefixed] = "complete"
        => fstate'[Unprefixed] = "complete" /\ files'[Unprefixed] = files[Unprefixed]

(* C10: cbprefixed.csv is opened only after unprefixed.csv is complete; a *)
(* failure while writing unprefixed.csv ends the run with cbprefixed.csv  *)
(* never opened; once unprefixed.csv is complete nothing changes it, also *)
(* when writing cbprefixed.csv fails.                                     *)
FilesNotAtomic == []OneFileAtATime /\ [][NoRollback]_vars

\* writing cbprefixed.csv failed: unprefixed.csv is complete and has its rows
FilesNotAtomicWitness ==
    /\ pc = "failed" /\ err = "OSError"
    /\ fstate[Cbprefixed] = "truncated"
    /\ fstate[Unprefixed] = "complete"
    /\ Len(Lines(files[Unprefixed])) >= 2

====
